---- MODULE Spec2Model ----
(***************************************************************************)
(* A model of morpher.py: the contour tracer (find_first, get_line), the   *)
(* decimation and interpolation loops of main, and flood_fill.             *)
(*                                                                         *)
(* One specification per stage of the pipeline:                            *)
(*   SpecTrace      get_line on every image of ImgH rows and ImgW columns  *)
(*   SpecTraceTall  get_line on every image of TallH rows, TallW columns   *)
(*   SpecMorph      main from the decimation loop to the last frame        *)
(*   SpecFlood      flood_fill on every FW x FH image, seed and colour     *)
(* FairSpecMorph adds the fairness of a running program to SpecMorph.      *)
(*                                                                         *)
(* The cursor of the decimation loop and the values of lerp are Python     *)
(* doubles; the model computes them as exact fractions (a numerator over a *)
(* denominator).  t = 0.0, t = 1.0 and every t = k / 2^n are exact in      *)
(* doubles too; for other t a sum whose real value is an integer p can be  *)
(* the double just below p, which int() truncates to p - 1.                *)
(***************************************************************************)
EXTENDS Integers, Sequences, FiniteSets

VARIABLES
    \* get_line
    height,         \* rows of the padded canvas
    width,          \* columns of the padded canvas
    padded,         \* alpha channel of the padded canvas, by <<row, column>>
    first,          \* result of find_first(padded)
    cur,            \* the loop's current point (i, j)
    prevs,          \* the history ring: the last 8 selected points
    line,           \* the contour built so far
    tpc,            \* "start", "loop", "returned", "failed", "crashed"
    \* main
    original_line,  \* contour of the first image
    final_line,     \* contour of the second image
    line0,          \* history: the two contours as get_line returned them
    a_is,           \* which list the name `a` is bound to
    b_is,           \* which list the name `b` is bound to
    inc,            \* the step len(a) / (len(a) - len(b)), as <<num, den>>
    ival,           \* the cursor i, as a numerator over inc's denominator
    original_color, \* fill colour traced from the first image
    final_color,    \* fill colour traced from the second image
    nframes,        \* number of frames asked for
    frame,          \* index of the next frame of the linspace loop
    interpolated,   \* point list of the frame just computed
    color,          \* colour of the frame just computed
    lines,          \* the draw.line calls of the frame just computed
    seed,           \* the xy handed to flood_fill for that frame
    mpc,            \* "start", "outer", "inner", "frames", "done"
    \* flood_fill
    img,            \* pixels of the image, by <<x, y>>
    stack,          \* the explicit stack of positions
    fill,           \* the colour argument
    putlog,         \* history: the positions of the putpixel calls, in order
    fpc             \* "loop", "done"

tvars == <<height, width, padded, first, cur, prevs, line, tpc>>
mvars == <<original_line, final_line, line0, a_is, b_is, inc, ival,
           original_color, final_color, nframes, frame, interpolated, color,
           lines, seed, mpc>>
fvars == <<img, stack, fill, putlog, fpc>>
vars == <<tvars, mvars, fvars>>

Range(s) == {s[k] : k \in 1..Len(s)}

(***************************************************************************)
(* Bounds                                                                  *)
(***************************************************************************)
ImgH == 3       \* rows of the source images of SpecTrace
ImgW == 3       \* columns of the source images of SpecTrace
TallH == 4      \* rows of the source images of SpecTraceTall
TallW == 3      \* columns of the source images of SpecTraceTall
MaxLine == 20   \* the model follows a trace for at most this many points
MinLen == 2     \* shortest contour get_line can return
MaxLen == 5     \* longest contour handed to main's loops
MaxOff == 2     \* the second contour starts at a row and column up to this
MaxFrames == 5  \* largest nframes
FW == 2         \* width of the image flood_fill works on
FH == 2         \* height of the image flood_fill works on

(***************************************************************************)
(* get_line                                                                *)
(***************************************************************************)
\* positions of the padded canvas, and those of the original inside it
Pos == (0..(height - 1)) \X (0..(width - 1))
Inner == (1..(height - 2)) \X (1..(width - 2))

\* np.hstack / np.vstack with zero columns and rows around an original of
\* h rows and w columns whose pixels with alpha # 0 are those of fg
Pad(h, w, fg) ==
    [p \in (0..(h + 1)) \X (0..(w + 1)) |-> IF p \in fg THEN 255 ELSE 0]

\* order of the nested scan of find_first
RowMajorLE(p, q) == p[1] < q[1] \/ (p[1] = q[1] /\ p[2] <= q[2])

find_first(pic) ==
    LET hit == {p \in Pos : pic[p] # 0}
    IN  IF hit = {} THEN <<height, width>>
        ELSE CHOOSE p \in hit : \A q \in hit : RowMajorLE(p, q)

\* A typo that scans the point itself in place of its northern neighbour.
NeighboursSelf(p) ==
    << <<p[1], p[2]>>, <<p[1] - 1, p[2] + 1>>, <<p[1], p[2] + 1>>,
       <<p[1] + 1, p[2] + 1>>, <<p[1] + 1, p[2]>>, <<p[1] + 1, p[2] - 1>>,
       <<p[1], p[2] - 1>>, <<p[1] - 1, p[2] - 1>> >>

\* the tuple the for loop walks: N, NE, E, SE, S, SW, W, NW
Neighbours(p) ==
    << <<p[1] - 1, p[2]>>, <<p[1] - 1, p[2] + 1>>, <<p[1], p[2] + 1>>,
       <<p[1] + 1, p[2] + 1>>, <<p[1] + 1, p[2]>>, <<p[1] + 1, p[2] - 1>>,
       <<p[1], p[2] - 1>>, <<p[1] - 1, p[2] - 1>> >>

\* the four pixels the any(...) of the condition reads
Cross(p) == {<<p[1] - 1, p[2]>>, <<p[1], p[2] + 1>>,
             <<p[1] + 1, p[2]>>, <<p[1], p[2] - 1>>}

OnBorder(pic, p) == pic[p] # 0 /\ \E q \in Cross(p) : pic[q] = 0

\* The condition without its any(...) part.
QualifiesAnyForeground(pic, ring, p) ==
    pic[p] # 0 /\ p \notin Range(ring)

\* the condition of the if inside the for loop
Qualifies(pic, ring, p) ==
    OnBorder(pic, p) /\ p \notin Range(ring)

\* index in Neighbours of the neighbour the for loop breaks on, 0 if none
Pick(pic, ring, p) ==
    LET nb == Neighbours(p)
        ok == {k \in 1..8 : Qualifies(pic, ring, nb[k])}
    IN  IF ok = {} THEN 0 ELSE CHOOSE k \in ok : \A l \in ok : k <= l

Sentinel == <<height, width>>

\* lines 71-81 and 86-87, for every image of h rows and w columns
InitTraceOn(h, w) ==
    /\ height = h + 2
    /\ width = w + 2
    /\ \E fg \in SUBSET ((1..h) \X (1..w)) : padded = Pad(h, w, fg)
    /\ first = Sentinel
    /\ cur = Sentinel
    /\ prevs = [k \in 1..8 |-> Sentinel]
    /\ line = << >>
    /\ tpc = "start"

\* lines 83-87; on a blank image padded[height] raises IndexError
FindFirst ==
    /\ tpc = "start"
    /\ first' = find_first(padded)
    /\ cur' = first'
    /\ tpc' = IF first' = Sentinel THEN "crashed" ELSE "loop"
    /\ UNCHANGED <<height, width, padded, prevs, line>>

\* one iteration of the while loop in which the for loop breaks
TraceStep ==
    /\ tpc = "loop"
    /\ Len(line) < MaxLine
    /\ Pick(padded, prevs, cur) # 0
    /\ LET p == Neighbours(cur)[Pick(padded, prevs, cur)]
       IN  /\ line' = Append(line, p)
           /\ prevs' = Append(Tail(prevs), p)
           /\ cur' = p
           /\ tpc' = IF p = first THEN "returned" ELSE "loop"
    /\ UNCHANGED <<height, width, padded, first>>

\* the else branch of the for loop: eprint and exit(1)
TraceFail ==
    /\ tpc = "loop"
    /\ Pick(padded, prevs, cur) = 0
    /\ tpc' = "failed"
    /\ UNCHANGED <<height, width, padded, first, cur, prevs, line>>

(***************************************************************************)
(* Shapes, for stating the tracer's properties                             *)
(***************************************************************************)
Adjacent4(p, q) ==
    \/ (p[1] = q[1] /\ (p[2] = q[2] + 1 \/ q[2] = p[2] + 1))
    \/ (p[2] = q[2] /\ (p[1] = q[1] + 1 \/ q[1] = p[1] + 1))

RECURSIVE Reach(_, _)
Reach(S, R) ==
    LET N == R \cup {q \in S : \E p \in R : Adjacent4(p, q)}
    IN  IF N = R THEN R ELSE Reach(S, N)

Connected(S) == S = {} \/ Reach(S, {CHOOSE x \in S : TRUE}) = S

Foreground(pic) == {p \in Pos : pic[p] # 0}
Background(pic) == {p \in Pos : pic[p] = 0}

\* one 4-connected foreground component whose complement is 4-connected
\* (the strictest reading of "hole-free, single-component")
SimpleShape(pic) ==
    /\ Foreground(pic) # {}
    /\ Connected(Foreground(pic))
    /\ Connected(Background(pic))

\* a transparent pixel whose eight neighbours are all foreground
OnePixelHole(pic) ==
    \E p \in Inner :
        /\ pic[p] = 0
        /\ \A k \in 1..8 : pic[Neighbours(p)[k]] # 0

\* C1: whenever the tracing loop returns, the last point appended is the
\* start pixel found by find_first, and every point of the contour is a
\* foreground pixel of the padded canvas with a background pixel among its
\* N/E/S/W neighbours.  (It holds of every image, simple shape or not.)
ContourClosesOnBorder ==
    tpc = "returned" =>
        /\ Len(line) >= 1
        /\ line[Len(line)] = first
        /\ first = find_first(padded)
        /\ \A k \in 1..Len(line) : OnBorder(padded, line[k])

\* a simple shape with interior pixels has been traced back to its start
ContourClosesOnBorderWitness ==
    /\ tpc = "returned"
    /\ SimpleShape(padded)
    /\ \E p \in Inner : padded[p] # 0 /\ ~OnBorder(padded, p)

\* C4: an image whose shape has a one-pixel hole never makes get_line
\* return a contour (it ends in the failure branch instead).
HoleNeverReturns ==
    OnePixelHole(padded) => tpc # "returned"

\* C5 as stated: a returned contour has at least 3 points and no two
\* cyclically consecutive points are identical.
ContourAtLeastThree ==
    tpc = "returned" =>
        /\ Len(line) >= 3
        /\ \A k \in 1..Len(line) : line[k] # line[(k % Len(line)) + 1]

\* C5, amended: a returned contour has at least 2 points and no two
\* cyclically consecutive points are identical (last-to-first included).
ContourAtLeastTwo ==
    tpc = "returned" =>
        /\ Len(line) >= 2
        /\ \A k \in 1..Len(line) : line[k] # line[(k % Len(line)) + 1]

\* a two-pixel shape has been traced: its contour has exactly 2 points
ContourAtLeastTwoWitness ==
    /\ tpc = "returned"
    /\ Len(line) = 2
    /\ Cardinality(Foreground(padded)) = 2

\* C7: on a hole-free single-component shape the tracing loop terminates.
\* The loop's next step is a function of the current point and the history
\* ring alone (the ring's last entry is the current point), so it
\* terminates exactly when it is never twice at the same ring: here, no
\* two different positions of the contour end the same run of 8 points.
TraceNeverRepeatsOnSimpleShape ==
    SimpleShape(padded) =>
        \A k1, k2 \in 8..Len(line) :
            k1 < k2 => SubSeq(line, k1 - 7, k1) # SubSeq(line, k2 - 7, k2)

IdleTrace ==
    /\ height = 0
    /\ width = 0
    /\ padded = << >>
    /\ first = Sentinel
    /\ cur = Sentinel
    /\ prevs = << >>
    /\ line = << >>
    /\ tpc = "idle"

IdleMorph ==
    /\ original_line = << >>
    /\ final_line = << >>
    /\ line0 = << >>
    /\ a_is = "none"
    /\ b_is = "none"
    /\ inc = <<0, 1>>
    /\ ival = 0
    /\ original_color = <<0, 0, 0, 0>>
    /\ final_color = <<0, 0, 0, 0>>
    /\ nframes = 0
    /\ frame = 0
    /\ interpolated = << >>
    /\ color = <<0, 0, 0, 0>>
    /\ lines = << >>
    /\ seed = <<0, 0>>
    /\ mpc = "idle"

IdleFlood ==
    /\ img = << >>
    /\ stack = << >>
    /\ fill = <<0, 0, 0, 0>>
    /\ putlog = << >>
    /\ fpc = "idle"

NextTrace ==
    \/ FindFirst /\ UNCHANGED <<mvars, fvars>>
    \/ TraceStep /\ UNCHANGED <<mvars, fvars>>
    \/ TraceFail /\ UNCHANGED <<mvars, fvars>>

TraceInit == InitTraceOn(ImgH, ImgW) /\ IdleMorph /\ IdleFlood

SpecTrace == TraceInit /\ [][NextTrace]_vars

TraceTallInit == InitTraceOn(TallH, TallW) /\ IdleMorph /\ IdleFlood

SpecTraceTall == TraceTallInit /\ [][NextTrace]_vars

(***************************************************************************)
(* main: the decimation loop                                               *)
(***************************************************************************)
Min(x, y) == IF x <= y THEN x ELSE y

\* a contour of n different points, a run down one column from <<r, c>>
ContourAt(n, r, c) == [k \in 1..n |-> <<r + k - 1, c>>]

\* fill colours get_line can sample: RGBA with alpha # 0
Colours == {<<255, 0, 0, 255>>, <<0, 0, 255, 255>>,
            <<255, 255, 255, 255>>, <<10, 200, 30, 128>>}

\* min where max was meant: both names end up on the same list.
MaxByLenIsMin(o, f) == IF Len(o) <= Len(f) THEN "original" ELSE "final"

\* max(original_line, final_line, key=len): the first of the longest
MaxByLen(o, f) == IF Len(o) >= Len(f) THEN "original" ELSE "final"

\* min(original_line, final_line, key=len): the first of the shortest
MinByLen(o, f) == IF Len(o) <= Len(f) THEN "original" ELSE "final"

ListOf(name) == IF name = "original" THEN original_line ELSE final_line
A == ListOf(a_is)
B == ListOf(b_is)

\* The cursor starting one past the head of the list.
CursorStartAfterHead == 0 + 1

\* i = 0.0
CursorStart == 0

\* del s[k], k counted from 0
DelAt(s, k) == SubSeq(s, 1, k) \o SubSeq(s, k + 2, Len(s))

\* int(x) of the double whose real value is num / den: Python's int()
\* truncates toward zero
IntOf(num, den) ==
    IF num >= 0 THEN num \div den ELSE -((-num) \div den)

InitMorph ==
    /\ \E m, n \in MinLen..MaxLen : \E r, c \in 1..MaxOff :
         /\ original_line = ContourAt(m, 1, 1)
         /\ final_line = ContourAt(n, r, c)
    /\ line0 = [original |-> original_line, final |-> final_line]
    /\ a_is = "none"
    /\ b_is = "none"
    /\ inc = <<0, 1>>
    /\ ival = 0
    /\ original_color \in Colours
    /\ final_color \in Colours
    /\ nframes \in 1..MaxFrames
    /\ frame = 0
    /\ interpolated = << >>
    /\ color = <<0, 0, 0, 0>>
    /\ lines = << >>
    /\ seed = <<0, 0>>
    /\ mpc = "start"

\* lines 262-263
BindAB ==
    /\ mpc = "start"
    /\ a_is' = MaxByLen(original_line, final_line)
    /\ b_is' = MinByLen(original_line, final_line)
    /\ mpc' = "outer"
    /\ UNCHANGED <<original_line, final_line, line0, inc, ival,
                   original_color, final_color, nframes, frame,
                   interpolated, color, lines, seed>>

\* lines 264-266: the test of the outer while, then inc and i
OuterTest ==
    /\ mpc = "outer"
    /\ IF Len(A) # Len(B)
       THEN /\ inc' = <<Len(A), Len(A) - Len(B)>>
            /\ ival' = CursorStart * (Len(A) - Len(B))
            /\ mpc' = "inner"
       ELSE /\ mpc' = "frames"
            /\ UNCHANGED <<inc, ival>>
    /\ UNCHANGED <<original_line, final_line, line0, a_is, b_is,
                   original_color, final_color, nframes, frame,
                   interpolated, color, lines, seed>>

\* lines 267-271: the test of the inner while and one pass of its body
InnerStep ==
    /\ mpc = "inner"
    /\ IF ival < Len(A) * inc[2]
       THEN LET shorter == DelAt(A, IntOf(ival, inc[2]))
            IN  /\ original_line' =
                      IF a_is = "original" THEN shorter ELSE original_line
                /\ final_line' =
                      IF a_is = "final" THEN shorter ELSE final_line
                /\ IF Len(shorter) = Len(B)
                   THEN mpc' = "outer" /\ ival' = ival
                   ELSE mpc' = "inner" /\ ival' = ival + inc[1]
       ELSE /\ mpc' = "outer"
            /\ UNCHANGED <<original_line, final_line, ival>>
    /\ UNCHANGED <<line0, a_is, b_is, inc, original_color, final_color,
                   nframes, frame, interpolated, color, lines, seed>>

(***************************************************************************)
(* main: the frame loop                                                    *)
(***************************************************************************)
\* np.linspace(0.0, 1.0, nframes)[k] as the fraction TNum / TDen
TNum(k) == k
TDen(n) == IF n = 1 THEN 1 ELSE n - 1

\* The two ends exchanged.
lerpSwapped(x, y, tn, td) == tn * x + (td - tn) * y

\* lerp(a, b, t) = (1 - t) * a + t * b, as a numerator over td
lerp(x, y, tn, td) == (td - tn) * x + tn * y

\* int(lerp(x, y, t))
IntLerp(x, y, tn, td) == IntOf(lerp(x, y, tn, td), td)

ZipLen == Min(Len(original_line), Len(final_line))

\* lines 277-279: the list the inner for loop builds, points as (j, i)
Interpolate(tn, td) ==
    [k \in 1..ZipLen |->
        <<IntLerp(original_line[k][2], final_line[k][2], tn, td),
          IntLerp(original_line[k][1], final_line[k][1], tn, td)>>]

\* lines 283-286
FrameColour(tn, td) ==
    <<IntLerp(original_color[1], final_color[1], tn, td),
      IntLerp(original_color[2], final_color[2], tn, td),
      IntLerp(original_color[3], final_color[3], tn, td),
      255>>

\* pts[i] with Python's indexing: from 0, negative from the end
PyIndex(pts, i) == pts[(i % Len(pts)) + 1]

\* lines 288-290: the draw.line calls, in order, as <<from, to>>
DrawnLines(pts) ==
    [k \in 1..(Len(pts) - 1) |-> <<PyIndex(pts, k - 2), PyIndex(pts, k - 1)>>]
    \o << <<PyIndex(pts, -1), PyIndex(pts, 0)>> >>

\* lines 276-292: one pass of the for loop over linspace
Frame ==
    /\ mpc = "frames"
    /\ frame < nframes
    /\ LET pts == Interpolate(TNum(frame), TDen(nframes))
       IN  /\ interpolated' = pts
           /\ lines' = DrawnLines(pts)
           /\ seed' = <<PyIndex(pts, 0)[1], PyIndex(pts, 0)[2] + 5>>
    /\ color' = FrameColour(TNum(frame), TDen(nframes))
    /\ frame' = frame + 1
    /\ mpc' = IF frame + 1 = nframes THEN "done" ELSE "frames"
    /\ UNCHANGED <<original_line, final_line, line0, a_is, b_is, inc, ival,
                   original_color, final_color, nframes>>

NextMorph ==
    \/ BindAB /\ UNCHANGED <<tvars, fvars>>
    \/ OuterTest /\ UNCHANGED <<tvars, fvars>>
    \/ InnerStep /\ UNCHANGED <<tvars, fvars>>
    \/ Frame /\ UNCHANGED <<tvars, fvars>>

MorphInit == IdleTrace /\ InitMorph /\ IdleFlood

SpecMorph == MorphInit /\ [][NextMorph]_vars

(***************************************************************************)
(* Properties of main                                                      *)
(***************************************************************************)
RECURSIVE IsSubseq(_, _)
IsSubseq(s, t) ==
    IF s = << >> THEN TRUE
    ELSE IF t = << >> THEN FALSE
    ELSE IF Head(s) = Head(t) THEN IsSubseq(Tail(s), Tail(t))
    ELSE IsSubseq(s, Tail(t))

DecimationOver == mpc \in {"frames", "done"}
LongerName == MaxByLen(line0.original, line0.final)
ShorterName == IF LongerName = "original" THEN "final" ELSE "original"
M0 == Len(line0.original)
N0 == Len(line0.final)

FairSpecMorph == SpecMorph /\ WF_vars(NextMorph)

\* C2: for contours of lengths m # n the decimation loop terminates, and
\* when it is over both contours have length min(m, n), the longer one is a
\* subsequence of its original and the shorter one is unchanged.
DecimationEqualisesLengths ==
    /\ <>DecimationOver
    /\ []((DecimationOver /\ M0 # N0) =>
            /\ Len(original_line) = Min(M0, N0)
            /\ Len(final_line) = Min(M0, N0)
            /\ IsSubseq(ListOf(LongerName), line0[LongerName])
            /\ ListOf(ShorterName) = line0[ShorterName])

\* the loop has cut a contour down by at least two points
DecimationEqualisesLengthsWitness ==
    /\ DecimationOver
    /\ M0 >= N0 + 2
    /\ Len(original_line) = N0

\* C10 as stated: after the decimation loop each contour still starts at
\* its original first point and its points keep their original order.
DecimationKeepsStart ==
    DecimationOver =>
        /\ original_line[1] = line0.original[1]
        /\ final_line[1] = line0.final[1]
        /\ IsSubseq(original_line, line0.original)
        /\ IsSubseq(final_line, line0.final)

\* C10, amended: after the decimation loop the points of each contour keep
\* their original order; a contour that was not the longer one is unchanged
\* and so keeps its first point; the longer one has lost its first point
\* and starts at a later point of its original.
DecimationDropsLongerStart ==
    DecimationOver =>
        /\ IsSubseq(original_line, line0.original)
        /\ IsSubseq(final_line, line0.final)
        /\ M0 = N0 =>
              original_line = line0.original /\ final_line = line0.final
        /\ M0 # N0 =>
              /\ ListOf(ShorterName) = line0[ShorterName]
              /\ ListOf(LongerName)[1] \in Range(Tail(line0[LongerName]))
              /\ ListOf(LongerName)[1] # line0[LongerName][1]

\* the second contour was the longer one and has been cut down
DecimationDropsLongerStartWitness ==
    /\ DecimationOver
    /\ N0 > M0
    /\ Len(final_line) = M0
    /\ final_line[1] # line0.final[1]

\* the frame just computed is the one for t = 0.0 / for t = 1.0
FrameAtZero == mpc \in {"frames", "done"} /\ frame = 1
FrameAtOne == mpc = "done" /\ frame = nframes /\ nframes >= 2

Flipped(contour) == [k \in 1..Len(contour) |-> <<contour[k][2], contour[k][1]>>]
Opaque(c) == <<c[1], c[2], c[3], 255>>

\* C3 as stated: the frame at t = 0.0 has the first contour's points, as
\* (column, row), and colour c0; the frame at t = 1.0 has the second
\* contour's points and colour c1.
EndFramesReproduceColour ==
    /\ FrameAtZero =>
          interpolated = Flipped(original_line) /\ color = original_color
    /\ FrameAtOne =>
          interpolated = Flipped(final_line) /\ color = final_color

\* C3, amended: the frame at t = 0.0 has the first contour's points, as
\* (column, row), and the red, green and blue of c0 with alpha 255; the
\* frame at t = 1.0 has the second contour's points and the red, green and
\* blue of c1 with alpha 255.  The colour is c0 (c1) itself only when c0
\* (c1) is opaque.
EndFramesReproduceOpaque ==
    /\ FrameAtZero =>
          interpolated = Flipped(original_line)
          /\ color = Opaque(original_color)
    /\ FrameAtOne =>
          interpolated = Flipped(final_line)
          /\ color = Opaque(final_color)

\* the last of several frames, between different contours and from a
\* translucent colour to an opaque one
EndFramesReproduceOpaqueWitness ==
    /\ FrameAtOne
    /\ original_color[4] # 255
    /\ final_color # Opaque(original_color)
    /\ Flipped(final_line) # Flipped(original_line)

\* e is an integer nearest to num / den
Nearest(e, num, den) ==
    LET d == e * den - num
    IN  2 * (IF d >= 0 THEN d ELSE -d) <= den

FrameDone == mpc \in {"frames", "done"} /\ frame >= 1

\* C9: every integer a frame emits, coordinate or colour channel, is
\* (1-t)*a + t*b rounded to the nearest integer, t = k/(nframes-1).
FrameRoundsToNearest ==
    FrameDone =>
        LET tn == TNum(frame - 1)
            td == TDen(nframes)
        IN  /\ \A k \in 1..Len(interpolated) :
                /\ Nearest(interpolated[k][1],
                           lerp(original_line[k][2], final_line[k][2], tn, td), td)
                /\ Nearest(interpolated[k][2],
                           lerp(original_line[k][1], final_line[k][1], tn, td), td)
            /\ \A ch \in 1..3 :
                Nearest(color[ch],
                        lerp(original_color[ch], final_color[ch], tn, td), td)
            /\ color[4] = 255

\* C6: the segments drawn for a frame of n >= 3 points join every
\* cyclically consecutive pair points[k], points[(k+1) mod n].
OutlineIsClosed ==
    (FrameDone /\ Len(interpolated) >= 3) =>
        \A k \in 0..(Len(interpolated) - 1) :
            \E s \in Range(lines) :
                {s[1], s[2]} = {PyIndex(interpolated, k),
                                PyIndex(interpolated, k + 1)}

(***************************************************************************)
(* flood_fill                                                              *)
(***************************************************************************)
White == <<255, 255, 255, 255>>
Red == <<255, 0, 0, 255>>
Blue == <<0, 0, 255, 255>>

Pix == (0..(FW - 1)) \X (0..(FH - 1))

\* the test 0 <= x < img.width and 0 <= y < img.height
InImage(n) == 0 <= n[1] /\ n[1] < FW /\ 0 <= n[2] /\ n[2] < FH

\* the condition of the if in the loop
Paintable(pic, n) == InImage(n) /\ pic[n] = White

\* the four positions pushed, in the order of the appends
Pushed(n) == << <<n[1] - 1, n[2]>>, <<n[1] + 1, n[2]>>,
                <<n[1], n[2] - 1>>, <<n[1], n[2] + 1>> >>

\* A call that paints no pixel twice holds at most this many positions:
\* the seed, and three more for each painted pixel.  The model follows no
\* call past it; such a call is still in its loop.
StackCap == 3 * FW * FH + 1

InitFlood ==
    /\ img \in [Pix -> {White, Red}]
    /\ fill \in {White, Red, Blue}
    /\ \E xy \in ((-1)..FW) \X ((-1)..FH) : stack = <<xy>>
    /\ putlog = << >>
    /\ fpc = "loop"

Top == stack[Len(stack)]
Popped == SubSeq(stack, 1, Len(stack) - 1)

\* lines 133-140, the if taken
FloodPaint ==
    /\ fpc = "loop"
    /\ stack # << >>
    /\ Paintable(img, Top)
    /\ Len(stack) + 3 <= StackCap
    /\ img' = [img EXCEPT ![Top] = fill]
    /\ stack' = Popped \o Pushed(Top)
    /\ putlog' = Append(putlog, Top)
    /\ UNCHANGED <<fill, fpc>>

\* lines 133-135, the if not taken
FloodSkip ==
    /\ fpc = "loop"
    /\ stack # << >>
    /\ ~Paintable(img, Top)
    /\ stack' = Popped
    /\ UNCHANGED <<img, fill, putlog, fpc>>

\* line 132: the stack is empty, the function returns
FloodReturn ==
    /\ fpc = "loop"
    /\ stack = << >>
    /\ fpc' = "done"
    /\ UNCHANGED <<img, stack, fill, putlog>>

NextFlood ==
    \/ FloodPaint /\ UNCHANGED <<tvars, mvars>>
    \/ FloodSkip /\ UNCHANGED <<tvars, mvars>>
    \/ FloodReturn /\ UNCHANGED <<tvars, mvars>>

FloodInit == IdleTrace /\ IdleMorph /\ InitFlood

SpecFlood == FloodInit /\ [][NextFlood]_vars

\* C8: flood_fill terminates for every canvas, seed and fill colour the
\* interpolator can produce, opaque white included.  A call ends exactly
\* when it paints no position twice: the paints are then at most the
\* pixels and every pass pops one of the at most 1 + 4 * pixels positions
\* pushed; a position painted twice was still white after its first paint,
\* so the colour is white, and it and the white neighbour that pushed it
\* push each other again at every paint, for ever.
FloodFillPaintsOnce ==
    \A k1, k2 \in 1..Len(putlog) : k1 # k2 => putlog[k1] # putlog[k2]

====
